---- MODULE Spec2Model ----
(***************************************************************************)
(* Model of the hardware encoder core (VaapiEncoder) and of the backend    *)
(* selecting facade (DynamicEncoder) of waycap-rs.                         *)
(*                                                                         *)
(* One encoder instance is followed from construction to destruction.      *)
(* The heap objects the instance reaches through raw pointers (hardware    *)
(* device contexts and frame-pool contexts, reference counted) are kept    *)
(* in hw; the bounded crossbeam channel is kept in chan.                   *)
(***************************************************************************)
EXTENDS Integers, Sequences, FiniteSets, TLC

VARIABLES
    vendor,     \* GPU vendor the EGL probe reports on this host
    nvenc,      \* TRUE when the build has the "nvenc" feature
    dyn,        \* what the last DynamicEncoder::new / get_spa_definition did
    life,       \* "Uninitialized" | "Constructed" | "Dropped"
    self,       \* Option<VaapiEncoder>: the struct's fields
    hw,         \* allocated hardware contexts: Seq of [dev, fr, by]
    chan,       \* contents of the bounded(10) channel, oldest first
    consumers,  \* Receiver clones held by consumer threads
    clock,      \* timestamp the capture source stamps on the next frame
    last        \* what the last operation was given and what it returned

vars == <<vendor, nvenc, dyn, life, self, hw, chan, consumers, clock, last>>

----------------------------------------------------------------------------
(* Bounds of the model *)

\* The capture source stamps frames 1, 2, .., MaxStamp and then keeps
\* stamping MaxStamp.
MaxStamp == 2

\* Frames the filter graph buffers before its sink has to yield one.
MaxPending == 1

\* Failed create_encoder calls that leave hardware contexts behind.
MaxLeaks == 1

\* Receiver clones handed to consumer threads at one time.
MaxConsumers == 1

(* Program constants *)

\* bounded(10)
ChannelCapacity == 10

\* hw_frame_context.initial_pool_size = 2: frames the encoder holds before
\* a packet has to be popped
InitialPoolSize == 2

----------------------------------------------------------------------------
(* Option<T> *)

None == <<>>
Some(x) == <<x>>
IsSome(o) == o # <<>>
Unwrap(o) == o[1]
UnwrapOr(o, d) == IF o = <<>> THEN d ELSE o[1]

----------------------------------------------------------------------------
(* Closed enumerations *)

QualityPreset == {"Low", "Medium", "High", "Ultra"}

GpuVendor == {"NVIDIA", "AMD", "INTEL", "UNKNOWN"}

\* enum VideoEncoder: the H264Nvenc variant exists only with the feature
VideoEncoderType(feature) ==
    IF feature THEN {"H264Nvenc", "H264Vaapi"} ELSE {"H264Vaapi"}

\* widths and heights given to the constructor (pixels, > 0)
Dims == {1, 2}

----------------------------------------------------------------------------
(* Reference counted hardware contexts.  A context pair is                 *)
(* [dev |-> references to the device context,                              *)
(*  fr  |-> references to the frame-pool context, by |-> creating call].   *)
(* The encoder handle and the filter graph name their pair by its place    *)
(* (ctx) in the table hw.                                                  *)
(* The frame-pool context itself holds one device reference (device_ref),  *)
(* which it gives back when its last reference goes.                       *)

av_buffer_ref_dev(h) == [h EXCEPT !.dev = @ + 1]

av_buffer_ref_fr(h) == [h EXCEPT !.fr = @ + 1]

av_buffer_unref_dev(h) == [h EXCEPT !.dev = @ - 1]

av_buffer_unref_fr(h) ==
    IF h.fr = 1 THEN [h EXCEPT !.fr = 0, !.dev = @ - 1]
    ELSE [h EXCEPT !.fr = @ - 1]

RECURSIVE UnrefFrames(_, _)
UnrefFrames(h, n) ==
    IF n = 0 THEN h ELSE UnrefFrames(av_buffer_unref_fr(h), n - 1)

\* dropping an encoder: avcodec_free_context gives back hw_device_ctx and
\* hw_frames_ctx
DropEncoderRefs(h) == av_buffer_unref_fr(av_buffer_unref_dev(h))

\* dropping a filter graph: hwmap gives back its device reference and every
\* buffered frame its frame-pool reference
DropGraphRefs(h, buffered) == UnrefFrames(av_buffer_unref_dev(h), buffered)

IsLive(h) == h.dev > 0 \/ h.fr > 0

\* freed contexts leave the table
Compact(t) == SelectSeq(t, IsLive)

----------------------------------------------------------------------------
(* Construction of the encoder handle and of the filter graph *)

\* Where a construction attempt can fail.  "none": it does not.  The failed
\* pool initialization is the one error the code builds itself
\* (WaycapError::Init, "ErrInit"); the others are the callee's error passed
\* on by ? ("ErrCreate").
\*   "codec"    find_by_name / Context::new_with_codec(..).encoder().video()
\*   "device"   create_hw_device
\*   "framectx" create_hw_frame_ctx
\*   "init"     av_hwframe_ctx_init returns a negative status
\*   "open"     set_parameters / open_with
\*   "graph"    create_filter_graph (graph.add / graph.validate)
CreateFaults == {"none", "codec", "device", "framectx", "init", "open", "graph"}

\* faults after which create_encoder returns with references nobody holds
LeakingFaults == {"framectx", "init"}

\* the table with Medium given the value of Low
get_encoder_params_medium_as_low(quality) ==
    CASE quality = "Low"    -> 30
      [] quality = "Medium" -> 30
      [] quality = "High"   -> 20
      [] quality = "Ultra"  -> 15

\* opts.set("qp", ..)
get_encoder_params(quality) ==
    CASE quality = "Low"    -> 30
      [] quality = "Medium" -> 25
      [] quality = "High"   -> 20
      [] quality = "Ultra"  -> 15

\* create_hw_device: a fresh device context, one reference (vaapi_device)
create_hw_device(by) == [dev |-> 1, fr |-> 0, by |-> by]

\* create_hw_frame_ctx: a fresh frame-pool context bound to the device, one
\* reference (frame_ctx)
create_hw_frame_ctx(h) == [h EXCEPT !.fr = 1]

\* The references a create_encoder call leaves on the pair it allocated, and
\* the handle it returns.  A raw *mut AVBufferRef has no destructor: a return
\* through ? or through the explicit Err gives back nothing the locals
\* vaapi_device and frame_ctx hold; the Context encoder_ctx does give back
\* what was bound to it.
create_encoder(width, height, encoder, quality, slot, by, fault) ==
    LET d1 == create_hw_device(by)
        d2 == create_hw_frame_ctx(d1)
        \* hw_frame_context.device_ref = av_buffer_ref(vaapi_device)
        d3 == av_buffer_ref_dev(d2)
        \* hw_device_ctx = av_buffer_ref(vaapi_device);
        \* hw_frames_ctx = av_buffer_ref(frame_ctx)
        d4 == av_buffer_ref_fr(av_buffer_ref_dev(d3))
        \* av_buffer_unref(&mut vaapi_device); av_buffer_unref(&mut frame_ctx)
        d5 == av_buffer_unref_fr(av_buffer_unref_dev(d4))
        handle == [ctx      |-> slot,
                   width    |-> width,
                   height   |-> height,
                   codec    |-> encoder,
                   qp       |-> get_encoder_params(quality),
                   draining |-> FALSE,
                   pending  |-> <<>>]
        none == [dev |-> 0, fr |-> 0, by |-> by]
    IN  CASE fault \in {"codec", "device"} ->
                [ok |-> FALSE, enc |-> None, ctx |-> none, err |-> "ErrCreate"]
          [] fault = "framectx" ->
                [ok |-> FALSE, enc |-> None, ctx |-> d1, err |-> "ErrCreate"]
          [] fault = "init" ->
                \* return Err(WaycapError::Init(..))
                [ok |-> FALSE, enc |-> None, ctx |-> d3, err |-> "ErrInit"]
          [] fault = "open" ->
                [ok |-> FALSE, enc |-> None, ctx |-> DropEncoderRefs(d5),
                 err |-> "ErrCreate"]
          [] OTHER ->
                [ok |-> TRUE, enc |-> Some(handle), ctx |-> d5, err |-> "Ok"]

\* create_filter_graph: in -> hwmap -> scale -> out; hwmap takes one more
\* reference to the encoder's device context.  A failing graph is dropped
\* with whatever it took.
create_filter_graph(h, slot, width, height, fault) ==
    IF fault = "graph"
    THEN [ok |-> FALSE, graph |-> None, ctx |-> h]
    ELSE [ok |-> TRUE,
          graph |-> Some([ctx |-> slot, width |-> width, height |-> height,
                          fifo |-> <<>>]),
          ctx |-> av_buffer_ref_dev(h)]

----------------------------------------------------------------------------
(* The codec library's send/receive interface, as the code relies on it:   *)
(* frames go in oldest first, a packet that comes out is one of the frames *)
(* the encoder holds (the encoder may reorder them), and after the         *)
(* end-of-stream signal the encoder takes nothing more (the receive loop   *)
(* of drain ends on it).                                                   *)

\* the sequence q without its i-th element
Without(q, i) == SubSeq(q, 1, i - 1) \o SubSeq(q, i + 1, Len(q))

\* encoder.send_frame(&filtered)
send_frame(enc, pts, hwOk) ==
    IF enc.draining THEN [res |-> "ErrEof", enc |-> enc]
    ELSE IF Len(enc.pending) >= InitialPoolSize
    THEN [res |-> "ErrAgain", enc |-> enc]
    ELSE IF ~hwOk THEN [res |-> "ErrHw", enc |-> enc]
    ELSE [res |-> "Ok", enc |-> [enc EXCEPT !.pending = Append(@, pts)]]

\* send_eof with the end-of-stream signal forgotten by the encoder
send_eof_forgets(enc) == [res |-> "Ok", enc |-> enc]

\* encoder.send_eof()
send_eof(enc) ==
    IF enc.draining THEN [res |-> "ErrEof", enc |-> enc]
    ELSE [res |-> "Ok", enc |-> [enc EXCEPT !.draining = TRUE]]

\* encoder.receive_packet(&mut packet): pkt is what the hardware has ready,
\* "none", "empty" (a packet without payload) or "data"; pick is which of
\* the frames it holds the encoder emits
receive_packet(enc, pkt, pick) ==
    IF enc.pending # <<>> /\ pkt # "none"
    THEN LET i == IF pick <= Len(enc.pending) THEN pick ELSE 1
         IN  [ok |-> TRUE,
              packet |-> [pts |-> Some(enc.pending[i]), data |-> pkt = "data"],
              enc |-> [enc EXCEPT !.pending = Without(@, i)]]
    ELSE [ok |-> FALSE,
          packet |-> [pts |-> None, data |-> FALSE],
          enc |-> enc]

\* EncodedVideoFrame with the packet's pts left out
EncodedVideoFrame_default_pts(packet) == [pts |-> 0]

\* EncodedVideoFrame { pts: packet.pts().unwrap_or(0), .. }
EncodedVideoFrame(packet) == [pts |-> UnwrapOr(packet.pts, 0)]

----------------------------------------------------------------------------
(* The output channel: crossbeam bounded(10) *)

\* Receivers alive: the clone the struct keeps plus the consumers' clones
Receivers(s, n) ==
    (IF IsSome(s) /\ IsSome(Unwrap(s).encoded_frame_recv) THEN 1 ELSE 0) + n

\* try_send of a channel that makes room by dropping its oldest frame
try_send_drops_oldest(q, f, receivers) ==
    IF receivers = 0 THEN [outcome |-> "Disconnected", chan |-> q]
    ELSE IF Len(q) >= ChannelCapacity
    THEN [outcome |-> "Full", chan |-> Append(Tail(q), f)]
    ELSE [outcome |-> "Ok", chan |-> Append(q, f)]

\* Sender::try_send
try_send(q, f, receivers) ==
    IF receivers = 0 THEN [outcome |-> "Disconnected", chan |-> q]
    ELSE IF Len(q) >= ChannelCapacity THEN [outcome |-> "Full", chan |-> q]
    ELSE [outcome |-> "Ok", chan |-> Append(q, f)]

\* process returning the send error to its caller
after_try_send_propagates(outcome) ==
    IF outcome = "Ok" THEN "Ok" ELSE "ErrSend"

\* what process returns after try_send: every arm of the match falls
\* through to Ok(())
after_try_send(outcome) == "Ok"

----------------------------------------------------------------------------
(* ProcessingThread::process *)

\* The part of process run for a frame that carries a DMA buffer: wrap the
\* buffer in a hardware frame tagged with the encoder's frame pool, push it
\* into the graph's source, pull one frame from the sink and submit it.
\* env.addOk: the source takes the frame; env.sinkReady: the sink has a
\* frame; env.sendOk: the hardware accepts a frame.
ingest(enc, g, h, frame, env) ==
    IF g = None \/ ~env.addOk
    THEN \* .unwrap() on an absent graph or on a failed add: the hardware
         \* frame is dropped while the thread unwinds
         [result |-> "Panic", enc |-> enc, graph |-> g, hw |-> h,
          submits |-> 0, pulled |-> FALSE]
    ELSE LET gr    == Unwrap(g)
             h1    == [h EXCEPT ![enc.ctx] = av_buffer_ref_fr(@)]
             fifo1 == Append(gr.fifo, frame.timestamp)
         IN  IF ~env.sinkReady
             THEN [result |-> "Ok", enc |-> enc,
                   graph |-> Some([gr EXCEPT !.fifo = fifo1]), hw |-> h1,
                   submits |-> 0, pulled |-> FALSE]
             ELSE LET r  == send_frame(enc, Head(fifo1), env.sendOk)
                      h2 == [h1 EXCEPT ![enc.ctx] = av_buffer_unref_fr(@)]
                  IN  [result |-> r.res, enc |-> r.enc,
                       graph |-> Some([gr EXCEPT !.fifo = Tail(fifo1)]),
                       hw |-> h2, submits |-> 1, pulled |-> TRUE]

\* process(&mut self, frame): s the struct, h the context table, q the
\* channel, receivers the Receivers alive.  env.pkt: what the encoder has
\* ready when receive_packet is called, env.pick: which frame it is.
process(s, h, q, receivers, frame, env) ==
    IF s.encoder = None
    THEN [self |-> s, hw |-> h, chan |-> q, result |-> "Ok", submits |-> 0,
          pulled |-> FALSE, receives |-> 0, pkt |-> "none",
          send |-> "NoSend"]
    ELSE
    LET enc0 == Unwrap(s.encoder)
        ing  == IF frame.dmabuf_fd = None
                THEN [result |-> "Ok", enc |-> enc0, graph |-> s.filter_graph,
                      hw |-> h, submits |-> 0, pulled |-> FALSE]
                ELSE ingest(enc0, s.filter_graph, h, frame, env)
        s1   == [s EXCEPT !.encoder = Some(ing.enc),
                          !.filter_graph = ing.graph]
    IN  IF ing.result # "Ok"
        THEN \* the ? after send_frame, or the panic
             [self |-> s1, hw |-> ing.hw, chan |-> q, result |-> ing.result,
              submits |-> ing.submits, pulled |-> ing.pulled,
              receives |-> 0, pkt |-> "none", send |-> "NoSend"]
        ELSE
        LET rp == receive_packet(ing.enc, env.pkt, env.pick)
            s2 == [s1 EXCEPT !.encoder = Some(rp.enc)]
            ts == IF rp.ok /\ rp.packet.data
                  THEN try_send(q, EncodedVideoFrame(rp.packet), receivers)
                  ELSE [outcome |-> "NoSend", chan |-> q]
        IN  [self |-> s2, hw |-> ing.hw, chan |-> ts.chan,
             result |-> IF ts.outcome = "NoSend" THEN "Ok"
                        ELSE after_try_send(ts.outcome),
             submits |-> ing.submits, pulled |-> ing.pulled,
             receives |-> 1,
             pkt |-> IF rp.ok THEN env.pkt ELSE "none",
             send |-> ts.outcome]

----------------------------------------------------------------------------
(* VideoEncoder::drop_processor, drain, output, reset *)

\* drop_processor with the filter graph left in place
drop_processor_keeps_graph(s, h) ==
    LET e  == s.encoder
        h1 == IF IsSome(e)
              THEN [h EXCEPT ![Unwrap(e).ctx] = DropEncoderRefs(@)] ELSE h
    IN  [self |-> [s EXCEPT !.encoder = None], hw |-> h1]

\* drop_processor with the encoder handle left in place
drop_processor_keeps_encoder(s, h) ==
    LET g  == s.filter_graph
        h1 == IF IsSome(g)
              THEN [h EXCEPT ![Unwrap(g).ctx] =
                                 DropGraphRefs(@, Len(Unwrap(g).fifo))]
              ELSE h
    IN  [self |-> [s EXCEPT !.filter_graph = None], hw |-> h1]

\* self.encoder.take(); self.filter_graph.take();
drop_processor(s, h) ==
    LET e  == s.encoder
        g  == s.filter_graph
        h1 == IF IsSome(e)
              THEN [h EXCEPT ![Unwrap(e).ctx] = DropEncoderRefs(@)] ELSE h
        h2 == IF IsSome(g)
              THEN [h1 EXCEPT ![Unwrap(g).ctx] =
                                  DropGraphRefs(@, Len(Unwrap(g).fifo))]
              ELSE h1
    IN  [self |-> [s EXCEPT !.encoder = None, !.filter_graph = None],
         hw   |-> Compact(h2)]

\* output handing out a receiver only while the encoder handle is present
output_only_when_ready(s) ==
    IF IsSome(s.encoder) THEN s.encoded_frame_recv ELSE None

\* self.encoded_frame_recv.clone()
output(s) == s.encoded_frame_recv

\* while sink.frame(&mut filtered).is_ok() { encoder.send_frame(&filtered)?; }
\* n: the frames the sink yields before it runs dry
RECURSIVE DrainSink(_, _, _, _)
DrainSink(enc, fifo, n, hwOk) ==
    IF n = 0 \/ fifo = <<>>
    THEN [res |-> "Ok", enc |-> enc, fifo |-> fifo, submits |-> 0]
    ELSE LET r == send_frame(enc, Head(fifo), hwOk)
         IN  IF r.res # "Ok"
             THEN [res |-> r.res, enc |-> enc, fifo |-> Tail(fifo),
                   submits |-> 1]
             ELSE LET d == DrainSink(r.enc, Tail(fifo), n - 1, hwOk)
                  IN  [d EXCEPT !.submits = @ + 1]

\* the receive loop of drain handing every packet on to the channel
ForwardPackets(enc) ==
    [enc |-> [enc EXCEPT !.pending = <<>>],
     forwarded |-> [i \in DOMAIN enc.pending |-> [pts |-> enc.pending[i]]]]

\* while encoder.receive_packet(&mut packet).is_ok() {} // Discard these frames
\* forwarded: the frames the loop hands to the channel
DiscardPackets(enc) ==
    [enc |-> [enc EXCEPT !.pending = <<>>], forwarded |-> <<>>]

\* drain(&mut self)
drain(s, h, n, hwOk) ==
    IF s.encoder = None
    THEN [self |-> s, hw |-> h, result |-> "Ok", submits |-> 0,
          forwarded |-> <<>>]
    ELSE
    LET enc0 == Unwrap(s.encoder)
        gr   == Unwrap(s.filter_graph)
        d    == DrainSink(enc0, gr.fifo, n, hwOk)
        h1   == [h EXCEPT ![enc0.ctx] =
                              UnrefFrames(@, Len(gr.fifo) - Len(d.fifo))]
        g1   == Some([gr EXCEPT !.fifo = d.fifo])
        eof  == send_eof(d.enc)
        dis  == DiscardPackets(eof.enc)
    IN  IF d.res # "Ok"
        THEN [self |-> [s EXCEPT !.encoder = Some(d.enc), !.filter_graph = g1],
              hw |-> h1, result |-> d.res, submits |-> d.submits,
              forwarded |-> <<>>]
        ELSE IF eof.res # "Ok"
        THEN [self |-> [s EXCEPT !.encoder = Some(d.enc), !.filter_graph = g1],
              hw |-> h1, result |-> eof.res, submits |-> d.submits,
              forwarded |-> <<>>]
        ELSE [self |-> [s EXCEPT !.encoder = Some(dis.enc),
                                 !.filter_graph = g1],
              hw |-> h1, result |-> "Ok", submits |-> d.submits,
              forwarded |-> dis.forwarded]

\* reset rebuilding with width and height taken one for the other
reset_swaps_dims(s, h, fault) ==
    LET dp   == drop_processor(s, h)
        slot == Len(dp.hw) + 1
        ce   == create_encoder(s.height, s.width, s.encoder_name, s.quality,
                               slot, "reset", fault)
        fg   == create_filter_graph(ce.ctx, slot, s.height, s.width, fault)
    IN  IF ~ce.ok
        THEN [self |-> dp.self, hw |-> Compact(Append(dp.hw, ce.ctx)),
              result |-> ce.err]
        ELSE IF ~fg.ok
        THEN [self |-> dp.self,
              hw |-> Compact(Append(dp.hw, DropEncoderRefs(fg.ctx))),
              result |-> "ErrCreate"]
        ELSE [self |-> [dp.self EXCEPT !.encoder = ce.enc,
                                       !.filter_graph = fg.graph],
              hw |-> Append(dp.hw, fg.ctx),
              result |-> "Ok"]

\* reset storing the new encoder before the filter graph is built
reset_stores_encoder_first(s, h, fault) ==
    LET dp   == drop_processor(s, h)
        slot == Len(dp.hw) + 1
        ce   == create_encoder(s.width, s.height, s.encoder_name, s.quality,
                               slot, "reset", fault)
        fg   == create_filter_graph(ce.ctx, slot, s.width, s.height, fault)
    IN  IF ~ce.ok
        THEN [self |-> dp.self, hw |-> Compact(Append(dp.hw, ce.ctx)),
              result |-> ce.err]
        ELSE IF ~fg.ok
        THEN [self |-> [dp.self EXCEPT !.encoder = ce.enc],
              hw |-> Append(dp.hw, ce.ctx),
              result |-> "ErrCreate"]
        ELSE [self |-> [dp.self EXCEPT !.encoder = ce.enc,
                                       !.filter_graph = fg.graph],
              hw |-> Append(dp.hw, fg.ctx),
              result |-> "Ok"]

\* reset(&mut self)
reset(s, h, fault) ==
    LET dp   == drop_processor(s, h)
        slot == Len(dp.hw) + 1
        ce   == create_encoder(s.width, s.height, s.encoder_name, s.quality,
                               slot, "reset", fault)
        fg   == create_filter_graph(ce.ctx, slot, s.width, s.height, fault)
    IN  IF ~ce.ok
        THEN [self |-> dp.self, hw |-> Compact(Append(dp.hw, ce.ctx)),
              result |-> ce.err]
        ELSE IF ~fg.ok
        THEN \* new_encoder is dropped by the ?
             [self |-> dp.self,
              hw |-> Compact(Append(dp.hw, DropEncoderRefs(fg.ctx))),
              result |-> "ErrCreate"]
        ELSE [self |-> [dp.self EXCEPT !.encoder = ce.enc,
                                       !.filter_graph = fg.graph],
              hw |-> Append(dp.hw, fg.ctx),
              result |-> "Ok"]

\* VaapiEncoder::new(width, height, quality)
new(width, height, quality, h, fault) ==
    LET encoder_name == "h264_vaapi"
        slot == Len(h) + 1
        ce   == create_encoder(width, height, encoder_name, quality,
                               slot, "new", fault)
        fg   == create_filter_graph(ce.ctx, slot, width, height, fault)
    IN  IF ~ce.ok
        THEN [self |-> None, hw |-> Compact(Append(h, ce.ctx)),
              result |-> ce.err]
        ELSE IF ~fg.ok
        THEN [self |-> None,
              hw |-> Compact(Append(h, DropEncoderRefs(fg.ctx))),
              result |-> "ErrCreate"]
        ELSE [self |-> Some([encoder            |-> ce.enc,
                             width              |-> width,
                             height             |-> height,
                             encoder_name       |-> encoder_name,
                             quality            |-> quality,
                             encoded_frame_recv |-> Some("rx"),
                             filter_graph       |-> fg.graph]),
              hw |-> Append(h, fg.ctx),
              result |-> "Ok"]

\* impl Drop: drain, log its error, drop_processor; then the fields go, the
\* struct's Sender and Receiver among them
drop(s, h, n, hwOk) ==
    LET dr == drain(s, h, n, hwOk)
        dp == drop_processor(dr.self, dr.hw)
    IN  [self |-> None, hw |-> dp.hw, forwarded |-> dr.forwarded,
         logged |-> IF dr.result = "Ok" THEN "none" ELSE dr.result,
         stopped |-> dp.self.encoder = None /\ dp.self.filter_graph = None]

----------------------------------------------------------------------------
(* DynamicEncoder::new: backend selection *)

\* EglContext::new(100, 100): the throwaway rendering context, live once
\* created
EglContext_new(eglOk) == [ok |-> eglOk, live |-> IF eglOk THEN 1 ELSE 0]

\* dummy_context leaves scope at the end of the None arm, on the early
\* return too
drop_EglContext(live) == live - 1

\* the match on the vendor the probe reports
match_gpu_vendor(v, feature) ==
    CASE v = "NVIDIA" -> Some(IF feature THEN "H264Nvenc" ELSE "H264Vaapi")
      [] v \in {"AMD", "INTEL"} -> Some("H264Vaapi")
      [] OTHER -> None

\* selection that prefers NVENC on every vendor once it is compiled in
select_prefers_nvenc(requested, v, feature, eglOk) ==
    IF IsSome(requested)
    THEN [ok |-> TRUE, typ |-> Unwrap(requested), probed |-> FALSE,
          err |-> "Ok", egl |-> 0]
    ELSE IF ~eglOk
    THEN [ok |-> FALSE, typ |-> "none", probed |-> FALSE,
          err |-> "ErrEgl", egl |-> 0]
    ELSE IF v = "UNKNOWN"
    THEN [ok |-> FALSE, typ |-> "none", probed |-> TRUE,
          err |-> "ErrInit", egl |-> 0]
    ELSE [ok |-> TRUE,
          typ |-> IF feature THEN "H264Nvenc" ELSE "H264Vaapi",
          probed |-> TRUE, err |-> "Ok", egl |-> 0]

\* selection that asks the GPU for its vendor whether or not a backend was
\* requested, and gives up on a vendor it does not know
select_always_probes(requested, v, feature, eglOk) ==
    IF ~eglOk
    THEN [ok |-> FALSE, typ |-> "none", probed |-> FALSE,
          err |-> "ErrEgl", egl |-> 0]
    ELSE IF match_gpu_vendor(v, feature) = None
    THEN [ok |-> FALSE, typ |-> "none", probed |-> TRUE,
          err |-> "ErrInit", egl |-> 0]
    ELSE [ok |-> TRUE,
          typ |-> IF IsSome(requested) THEN Unwrap(requested)
                  ELSE Unwrap(match_gpu_vendor(v, feature)),
          probed |-> TRUE, err |-> "Ok", egl |-> 0]

\* selection that falls back to VAAPI on a vendor it does not know
select_unknown_as_vaapi(requested, v, feature, eglOk) ==
    IF IsSome(requested)
    THEN [ok |-> TRUE, typ |-> Unwrap(requested), probed |-> FALSE,
          err |-> "Ok", egl |-> 0]
    ELSE IF ~eglOk
    THEN [ok |-> FALSE, typ |-> "none", probed |-> FALSE,
          err |-> "ErrEgl", egl |-> 0]
    ELSE [ok |-> TRUE,
          typ |-> UnwrapOr(match_gpu_vendor(v, feature), "H264Vaapi"),
          probed |-> TRUE, err |-> "Ok", egl |-> 0]

\* The match on encoder_type: a requested backend is taken as it is;
\* otherwise a throwaway EglContext is created to ask for the GPU vendor.
\* eglOk: EglContext::new(100, 100) succeeds.  egl: the throwaway contexts
\* still live when the match is left.
select_encoder_type(requested, v, feature, eglOk) ==
    IF IsSome(requested)
    THEN [ok |-> TRUE, typ |-> Unwrap(requested), probed |-> FALSE,
          err |-> "Ok", egl |-> 0]
    ELSE LET dummy_context == EglContext_new(eglOk)
             typ == match_gpu_vendor(v, feature)
         IN  IF ~dummy_context.ok
             THEN \* the ? after EglContext::new
                  [ok |-> FALSE, typ |-> "none", probed |-> FALSE,
                   err |-> "ErrEgl", egl |-> dummy_context.live]
             ELSE IF typ = None
             THEN \* return Err(WaycapError::Init(..))
                  [ok |-> FALSE, typ |-> "none", probed |-> TRUE,
                   err |-> "ErrInit",
                   egl |-> drop_EglContext(dummy_context.live)]
             ELSE [ok |-> TRUE, typ |-> Unwrap(typ), probed |-> TRUE,
                   err |-> "Ok",
                   egl |-> drop_EglContext(dummy_context.live)]

\* the DynamicEncoder variant that wraps the core built for encoder_type
variant_of(typ) ==
    CASE typ = "H264Nvenc" -> "Nvenc"
      [] typ = "H264Vaapi" -> "Vaapi"
      [] OTHER -> "none"

\* DynamicEncoder::get_spa_definition(): an associated function, it has no
\* instance and no requested backend to look at; it asks the GPU for its
\* vendor and passes on the definition of the backend the vendor stands
\* for.  backend: whose definition is returned.
get_spa_definition(v, feature, eglOk) ==
    LET dummy_context == EglContext_new(eglOk)
        typ == match_gpu_vendor(v, feature)
    IN  IF ~dummy_context.ok
        THEN [result |-> "ErrEgl", backend |-> "none",
              egl |-> dummy_context.live]
        ELSE IF typ = None
        THEN [result |-> "ErrInit", backend |-> "none",
              egl |-> drop_EglContext(dummy_context.live)]
        ELSE [result |-> "Ok", backend |-> variant_of(Unwrap(typ)),
              egl |-> drop_EglContext(dummy_context.live)]

----------------------------------------------------------------------------
(* State *)

Stamps == 1..MaxStamp

\* what the hardware and the filter graph do during one call
Envs == [addOk : BOOLEAN, sinkReady : BOOLEAN, sendOk : BOOLEAN,
         pkt : {"none", "empty", "data"}, pick : 1..InitialPoolSize]

\* RawVideoFrame.dmabuf_fd
Fds == {None, Some("fd")}

Obs(op, result) ==
    [op |-> op, result |-> result, fd |-> FALSE, ts |-> 0, submits |-> 0,
     pulled |-> FALSE, receives |-> 0, pkt |-> "none", send |-> "NoSend",
     out |-> "none",
     logged |-> "none", after |-> "none"]

NoDyn ==
    [op |-> "none", requested |-> None, typ |-> "none", variant |-> "none",
     probed |-> FALSE, result |-> "none", egl |-> 0,
     spa |-> "unasked", spa_backend |-> "none"]

\* the lifecycle state of section 4.5, read off the struct (Draining is the
\* inside of a drain call)
State ==
    IF life = "Uninitialized" THEN "Uninitialized"
    ELSE IF life = "Dropped" THEN "Stopped"
    ELSE IF IsSome(Unwrap(self).encoder) /\ IsSome(Unwrap(self).filter_graph)
    THEN "Ready"
    ELSE "Stopped"

\* the thread that owns the instance is unwinding from a panic
Panicked == last.result = "Panic"

InitCore ==
    /\ dyn = NoDyn
    /\ life = "Uninitialized"
    /\ self = None
    /\ hw = <<>>
    /\ chan = <<>>
    /\ consumers = 0
    /\ clock = 1
    /\ last = Obs("none", "Ok")

\* a host with a VAAPI GPU, a build without the nvenc feature
Init ==
    /\ vendor = "AMD"
    /\ nvenc = FALSE
    /\ InitCore

\* any host, any build
SelectInit ==
    /\ vendor \in GpuVendor
    /\ nvenc \in BOOLEAN
    /\ InitCore

----------------------------------------------------------------------------
(* Actions *)

\* a fault that leaves contexts behind is injected at most MaxLeaks times
FaultAllowed(fault, leaked) == fault \in LeakingFaults => leaked < MaxLeaks

New(width, height, quality, fault) ==
    /\ life = "Uninitialized"
    /\ FaultAllowed(fault, Len(hw))
    /\ \E r \in {new(width, height, quality, hw, fault)} :
           /\ self' = r.self
           /\ hw' = r.hw
           /\ life' = IF r.result = "Ok" THEN "Constructed" ELSE life
           /\ last' = Obs("new", r.result)
    /\ chan' = <<>>
    /\ UNCHANGED <<vendor, nvenc, dyn, consumers, clock>>

\* Inputs that the call never looks at are held at one value: a step the
\* call does not reach (after the panic, after the ? of send_frame) and the
\* choice among the packets when none comes out ...
ReachedEnvs ==
    {e \in Envs :
        /\ ~e.addOk => (e.sinkReady /\ e.sendOk /\ e.pkt = "none")
        /\ ~e.sinkReady => e.sendOk
        /\ ~e.sendOk => e.pkt = "none"
        /\ e.pkt = "none" => e.pick = 1}

\* ... and, in the state the call is made in, the ingestion when there is
\* no encoder or no buffer descriptor, and the choice among the packets
\* when the encoder holds no earlier frame
Relevant(s, fd, env) ==
    /\ (s.encoder = None \/ fd = None)
          => (env.addOk /\ env.sinkReady /\ env.sendOk)
    /\ s.encoder = None => env.pkt = "none"
    /\ env.pick > 1
          => (IsSome(s.encoder) /\ Unwrap(s.encoder).pending # <<>>)

Process(fd, env) ==
    /\ life = "Constructed"
    /\ ~Panicked
    /\ Relevant(Unwrap(self), fd, env)
    /\ LET g == Unwrap(self).filter_graph
       IN  (IsSome(fd) /\ IsSome(g) /\ ~env.sinkReady)
               => Len(Unwrap(g).fifo) < MaxPending
    /\ \E r \in {process(Unwrap(self), hw, chan, Receivers(self, consumers),
                          [dmabuf_fd |-> fd, timestamp |-> clock], env)} :
           /\ self' = Some(r.self)
           /\ hw' = r.hw
           /\ chan' = r.chan
           /\ last' = [Obs("process", r.result) EXCEPT
                          !.fd = IsSome(fd), !.ts = clock,
                          !.submits = r.submits, !.pulled = r.pulled,
                          !.receives = r.receives,
                          !.pkt = r.pkt, !.send = r.send,
                          !.after = IF last.op = "drop_processor"
                                       /\ last.after = "drain"
                                    THEN "drain,drop_processor" ELSE "none"]
    /\ clock' = IF clock < MaxStamp THEN clock + 1 ELSE clock
    /\ UNCHANGED <<vendor, nvenc, dyn, life, consumers>>

Reset(fault) ==
    /\ life = "Constructed"
    /\ ~Panicked
    /\ FaultAllowed(fault, Len(drop_processor(Unwrap(self), hw).hw))
    /\ \E r \in {reset(Unwrap(self), hw, fault)} :
           /\ self' = Some(r.self)
           /\ hw' = r.hw
           /\ last' = Obs("reset", r.result)
    /\ UNCHANGED <<vendor, nvenc, dyn, life, chan, consumers, clock>>

DropProcessor ==
    /\ life = "Constructed"
    /\ ~Panicked
    /\ \E r \in {drop_processor(Unwrap(self), hw)} :
           /\ self' = Some(r.self)
           /\ hw' = r.hw
    /\ last' = [Obs("drop_processor", "Ok") EXCEPT
                   !.after = IF last.op \in {"drain", "drop_processor"}
                             THEN last.op ELSE "none"]
    /\ UNCHANGED <<vendor, nvenc, dyn, life, chan, consumers, clock>>

\* the frames the graph's sink can yield
Buffered(s) ==
    IF IsSome(s.encoder) /\ IsSome(s.filter_graph)
    THEN Len(Unwrap(s.filter_graph).fifo) ELSE 0

Drain(n, hwOk) ==
    /\ life = "Constructed"
    /\ ~Panicked
    /\ n <= Buffered(Unwrap(self))
    /\ \E r \in {drain(Unwrap(self), hw, n, hwOk)} :
           /\ self' = Some(r.self)
           /\ hw' = r.hw
           /\ chan' = chan \o r.forwarded
           /\ last' = [Obs("drain", r.result) EXCEPT !.submits = r.submits]
    /\ UNCHANGED <<vendor, nvenc, dyn, life, consumers, clock>>

Output ==
    /\ life = "Constructed"
    /\ ~Panicked
    /\ \E r \in {output(Unwrap(self))} :
           /\ IsSome(r) => consumers < MaxConsumers
           /\ consumers' = IF IsSome(r) THEN consumers + 1 ELSE consumers
           /\ last' = [Obs("output", "Ok") EXCEPT
                          !.out = IF IsSome(r) THEN "Some" ELSE "None"]
    /\ UNCHANGED <<vendor, nvenc, dyn, life, self, hw, chan, clock>>

\* the destructor; it also runs when the owning thread unwinds
Drop(n, hwOk) ==
    /\ life = "Constructed"
    /\ n <= Buffered(Unwrap(self))
    /\ \E r \in {drop(Unwrap(self), hw, n, hwOk)} :
           /\ self' = r.self
           /\ hw' = r.hw
           /\ chan' = chan \o r.forwarded
           /\ last' = [Obs("drop", "Ok") EXCEPT !.logged = r.logged]
    /\ life' = "Dropped"
    /\ UNCHANGED <<vendor, nvenc, dyn, consumers, clock>>

\* a consumer thread takes the oldest frame
ConsumerRecv ==
    /\ consumers > 0
    /\ chan # <<>>
    /\ chan' = Tail(chan)
    /\ last' = Obs("recv", "Ok")
    /\ UNCHANGED <<vendor, nvenc, dyn, life, self, hw, consumers, clock>>

\* a consumer thread drops its Receiver
ConsumerDrop ==
    /\ consumers > 0
    /\ consumers' = consumers - 1
    /\ last' = Obs("recv_drop", "Ok")
    /\ UNCHANGED <<vendor, nvenc, dyn, life, self, hw, chan, clock>>

\* DynamicEncoder::new(encoder_type, width, height, quality_preset)
DynamicNew(requested, width, height, quality, eglOk, fault) ==
    /\ dyn.op = "none"
    /\ life = "Uninitialized"
    /\ FaultAllowed(fault, Len(hw))
    /\ \E sel \in {select_encoder_type(requested, vendor, nvenc, eglOk)},
          r \in {new(width, height, quality, hw, fault)} :
           IF ~sel.ok
           THEN /\ dyn' = [dyn EXCEPT !.op = "new", !.requested = requested,
                                      !.typ = sel.typ, !.variant = "none",
                                      !.probed = sel.probed,
                                      !.result = sel.err, !.egl = sel.egl]
                /\ last' = Obs("dyn_new", sel.err)
                /\ UNCHANGED <<life, self, hw>>
           ELSE IF sel.typ = "H264Vaapi"
           THEN /\ dyn' = [dyn EXCEPT !.op = "new", !.requested = requested,
                                      !.typ = sel.typ,
                                      !.variant = IF r.result = "Ok"
                                                  THEN variant_of(sel.typ)
                                                  ELSE "none",
                                      !.probed = sel.probed,
                                      !.result = r.result, !.egl = sel.egl]
                /\ self' = r.self
                /\ hw' = r.hw
                /\ life' = IF r.result = "Ok" THEN "Constructed" ELSE life
                /\ last' = Obs("dyn_new", r.result)
           ELSE \* NvencEncoder::new(width, height, quality_preset)?
                LET res == IF fault = "none" THEN "Ok" ELSE "ErrCreate"
                IN  /\ dyn' = [dyn EXCEPT !.op = "new",
                                          !.requested = requested,
                                          !.typ = sel.typ,
                                          !.variant = IF res = "Ok"
                                                      THEN variant_of(sel.typ)
                                                      ELSE "none",
                                          !.probed = sel.probed,
                                          !.result = res, !.egl = sel.egl]
                    /\ last' = Obs("dyn_new", res)
                    /\ UNCHANGED <<life, self, hw>>
    /\ UNCHANGED <<vendor, nvenc, chan, consumers, clock>>

\* DynamicEncoder::get_spa_definition(), asked once, before or after the
\* facade is built
GetSpaDefinition(eglOk) ==
    /\ dyn.spa = "unasked"
    /\ \E r \in {get_spa_definition(vendor, nvenc, eglOk)} :
           /\ dyn' = [dyn EXCEPT !.spa = r.result, !.spa_backend = r.backend]
           /\ last' = Obs("get_spa_definition", r.result)
    /\ UNCHANGED <<vendor, nvenc, life, self, hw, chan, consumers, clock>>

\* the (width, height, quality) the constructor is called with
Configs == Dims \X Dims \X QualityPreset

\* the configurations followed through a whole life
LifeConfigs == {<<1, 2, "Low">>, <<2, 1, "Ultra">>}

\* construction faults after which everything allocated has been given back
CleanFaults == CreateFaults \ LeakingFaults

\* the hardware in its nominal steady state: the source takes every frame,
\* the sink yields it at once, the encoder accepts it and has its packet
\* ready
NominalEnvs ==
    {e \in ReachedEnvs : e.addOk /\ e.sinkReady /\ e.sendOk /\ e.pkt = "data"
                     /\ e.pick = 1}

\* The steady state in full: every answer the hardware can give to process
\* and drain; construction and reset fail only where they give everything
\* back.
Next ==
    \/ \E f \in CleanFaults : New(1, 2, "Low", f)
    \/ \E fd \in Fds, env \in ReachedEnvs : Process(fd, env)
    \/ \E f \in CleanFaults : Reset(f)
    \/ DropProcessor
    \/ \E n \in 0..MaxPending, ok \in BOOLEAN : Drain(n, ok)
    \/ Output
    \/ \E n \in 0..MaxPending, ok \in BOOLEAN : Drop(n, ok)
    \/ ConsumerRecv
    \/ ConsumerDrop

Spec == Init /\ [][Next]_vars

\* Construction and reset in full: every place create_encoder and
\* create_filter_graph can fail at; the hardware is nominal once built.
FaultNext ==
    \/ \E c \in LifeConfigs, f \in CreateFaults : New(c[1], c[2], c[3], f)
    \/ \E fd \in Fds, env \in NominalEnvs : Process(fd, env)
    \/ \E f \in CreateFaults : Reset(f)
    \/ DropProcessor
    \/ Drain(0, TRUE)
    \/ Output
    \/ Drop(0, TRUE)
    \/ ConsumerRecv
    \/ ConsumerDrop

FaultSpec == Init /\ [][FaultNext]_vars

SelectNext ==
    \/ \E req \in {None} \cup {Some(t) : t \in VideoEncoderType(nvenc)},
          c \in Configs, eglOk \in BOOLEAN, f \in CreateFaults :
           DynamicNew(req, c[1], c[2], c[3], eglOk, f)
    \/ \E eglOk \in BOOLEAN : GetSpaDefinition(eglOk)

SelectSpec == SelectInit /\ [][SelectNext]_vars

----------------------------------------------------------------------------
(* Properties *)

\* the contexts of the instance: the pair its handle or its graph names and
\* every context a reset call on it allocated
Holds(s, i) ==
    \/ IsSome(s.encoder) /\ Unwrap(s.encoder).ctx = i
    \/ IsSome(s.filter_graph) /\ Unwrap(s.filter_graph).ctx = i

InstanceContexts ==
    {i \in DOMAIN hw :
        hw[i].by = "reset" \/ (IsSome(self) /\ Holds(Unwrap(self), i))}

InstanceDevices == Cardinality({i \in InstanceContexts : hw[i].dev > 0})

InstanceFramePools == Cardinality({i \in InstanceContexts : hw[i].fr > 0})

\* live device context + frame-pool pairs of the instance
InstancePairs ==
    Cardinality({i \in InstanceContexts : hw[i].dev > 0 /\ hw[i].fr > 0})

\* the encoder handle of a Ready instance
Encoder == Unwrap(Unwrap(self).encoder)

\* the frames buffered in the filter graph of a Ready instance
Fifo == Unwrap(Unwrap(self).filter_graph).fifo

\* C1: at every point in the life of an instance, whatever calls were made
\* on it and whichever of them failed part-way, at most one hardware device
\* context + frame-pool pair of the instance is live.
C1_AtMostOnePairLive ==
    life = "Constructed" => InstancePairs <= 1

\* C2: after a reset call on a constructed instance exactly one device
\* context + frame-pool pair of the instance is live, however many resets
\* came before.  Stated for the resets that return Ok: a reset that fails
\* has installed no pair.
C2_ExactlyOnePairAfterReset ==
    (life = "Constructed" /\ last.op = "reset" /\ last.result = "Ok")
        => InstancePairs = 1

\* C3: the channel never holds more than 10 frames, and a process call that
\* obtains a packet with the channel at 10 frames drops the new frame,
\* leaves the 10 queued frames as they are and returns Ok.
C3_FullChannelDropsNewest ==
    /\ [](Len(chan) <= ChannelCapacity)
    /\ [][(last'.op = "process" /\ last'.pkt = "data"
              /\ Len(chan) = ChannelCapacity)
            => (last'.send = "Full" /\ chan' = chan /\ last'.result = "Ok")]_vars

C3_Witness ==
    /\ last.op = "process"
    /\ last.send = "Full"
    /\ Len(chan) = ChannelCapacity
    /\ consumers = 0

C5_Original ==
    [][(last'.op = "process" /\ State = "Ready" /\ last'.fd /\ last'.pulled)
         => /\ last'.submits = 1
            /\ last'.pkt = "data"
                 => /\ Len(chan') = Len(chan) + 1
                    /\ chan'[Len(chan')].pts = last'.ts]_vars

\* C5, amended: such a call submits exactly once, and the frame it submits
\* is the oldest one buffered in the filter graph (the frame given to the
\* call only when the graph held none); if a packet with payload is then
\* ready, one frame is appended when the channel has room and none when it
\* is full, and the appended frame's pts is the timestamp of one of the
\* frames the encoder holds at that moment: the one just submitted or one
\* submitted by an earlier call and not yet emitted.
C5_PtsOfAHeldFrame ==
    [][(last'.op = "process" /\ State = "Ready" /\ last'.fd /\ last'.pulled)
         => /\ last'.submits = 1
            /\ last'.pkt = "data"
                 => LET submitted == Head(Fifo \o <<last'.ts>>)
                        held == Encoder.pending \o <<submitted>>
                    IN  IF Len(chan) < ChannelCapacity
                        THEN \E i \in DOMAIN held :
                                chan' = Append(chan, [pts |-> held[i]])
                        ELSE chan' = chan]_vars

C5_Witness ==
    /\ last.op = "process"
    /\ last.fd
    /\ last.pulled
    /\ last.submits = 1
    /\ last.pkt = "data"
    /\ last.send = "Ok"
    /\ chan[Len(chan)].pts # last.ts

\* C6: drop_processor right after drain leaves encoder handle and filter
\* graph absent, and every process call on a Stopped instance returns Ok,
\* submits nothing and leaves channel, struct and contexts as they are.
C6_StoppedProcessIsNoop ==
    [][/\ (last.op = "drain" /\ last'.op = "drop_processor")
            => (Unwrap(self').encoder = None
                /\ Unwrap(self').filter_graph = None)
       /\ (life = "Constructed" /\ State = "Stopped" /\ last'.op = "process")
            => (last'.result = "Ok" /\ last'.submits = 0
                /\ last'.send = "NoSend" /\ chan' = chan
                /\ self' = self /\ hw' = hw)]_vars

C6_Witness ==
    /\ last.op = "process"
    /\ last.after = "drain,drop_processor"
    /\ last.result = "Ok"
    /\ State = "Stopped"

\* C7 as claimed: after a drain that succeeded the instance is Ready as
\* before: the next drain does not fail for the stream having ended, and a
\* process call that submits a frame does not either.
C7_Original ==
    [][(State = "Ready" /\ last.op = "drain" /\ last.result = "Ok"
           /\ last'.op \in {"drain", "process"})
         => last'.result # "ErrEof"]_vars

\* C7, amended: a drain from Ready that succeeds leaves encoder handle and
\* filter graph present but the encoder at end of stream; from then on
\* every drain fails with the end-of-stream error, and so does every
\* process call that submits a frame, while the handles stay; a successful
\* reset gives an encoder that takes frames again.
C7_DrainEndsTheStream ==
    [][/\ (State = "Ready" /\ last'.op = "drain" /\ last'.result = "Ok")
            => (State' = "Ready" /\ Encoder'.draining
                /\ Encoder'.pending = <<>>)
       /\ (State = "Ready" /\ Encoder.draining)
            => /\ last'.op = "drain"
                    => (last'.result = "ErrEof" /\ State' = "Ready")
               /\ (last'.op = "process" /\ last'.submits = 1)
                    => (last'.result = "ErrEof" /\ State' = "Ready")
               /\ (last'.op = "process" /\ last'.submits = 0)
                    => last'.result \in {"Ok", "Panic"}
       /\ (last'.op = "reset" /\ last'.result = "Ok")
            => (State' = "Ready" /\ ~Encoder'.draining)]_vars

C7_Witness ==
    /\ last.op = "process"
    /\ last.submits = 1
    /\ last.result = "ErrEof"
    /\ State = "Ready"

\* C8 as claimed: output() returns a receiver exactly in the states Ready
\* and Draining.
C8_Original ==
    life = "Constructed"
        => (IsSome(output(Unwrap(self))) <=> State \in {"Ready", "Draining"})

\* C8, amended: output() returns a receiver in every state of a constructed
\* instance, Stopped included.
C8_ReceiverAlwaysPresent ==
    life = "Constructed"
        => /\ IsSome(output(Unwrap(self)))
           /\ last.op = "output" => last.out = "Some"

C8_Witness ==
    /\ last.op = "output"
    /\ last.out = "Some"
    /\ State = "Stopped"

\* C9: once the destructor has run, encoder handle and filter graph are
\* gone and no hardware device or frame-pool context of the instance is
\* live, whatever state the instance was dropped in.
C9_NothingLiveAfterDrop ==
    life = "Dropped"
        => (self = None /\ InstanceDevices = 0 /\ InstanceFramePools = 0)

\* C10: with no backend requested, the backend is decided by the probed
\* vendor alone: AMD and INTEL give VAAPI, NVIDIA gives NVENC in a build
\* with the nvenc feature and VAAPI in one without.
C10_VendorDecidesBackend ==
    (dyn.op = "new" /\ dyn.requested = None /\ dyn.probed)
        => /\ vendor \in {"AMD", "INTEL"} => dyn.typ = "H264Vaapi"
           /\ vendor = "NVIDIA"
                => dyn.typ = IF nvenc THEN "H264Nvenc" ELSE "H264Vaapi"

C10_Witness ==
    /\ dyn.op = "new"
    /\ dyn.requested = None
    /\ vendor = "INTEL"
    /\ nvenc
    /\ dyn.typ = "H264Vaapi"
    /\ dyn.variant = "Vaapi"

\* C11: a requested backend is honoured whatever the GPU vendor, UNKNOWN
\* included: the core built is the requested one, and no throwaway
\* rendering context is created to probe the vendor; the probe is made only
\* when no backend is requested.
C11_RequestedBackendHonoured ==
    dyn.op = "new"
        => /\ IsSome(dyn.requested)
                => /\ dyn.typ = Unwrap(dyn.requested)
                   /\ ~dyn.probed
                   /\ dyn.result # "ErrEgl"
                   /\ dyn.result = "Ok"
                        => dyn.variant = variant_of(Unwrap(dyn.requested))
           /\ dyn.probed => dyn.requested = None
           /\ (dyn.requested = None /\ dyn.result = "Ok") => dyn.probed

C11_Witness ==
    /\ dyn.op = "new"
    /\ vendor = "UNKNOWN"
    /\ dyn.requested = Some("H264Vaapi")
    /\ dyn.result = "Ok"
    /\ dyn.variant = "Vaapi"
    /\ ~dyn.probed

\* C12: with no backend requested and the probe reporting an UNKNOWN
\* vendor, construction fails with the initialization error and builds
\* nothing: no encoder core, no hardware context, and the throwaway probe
\* context is gone.
C12_UnknownVendorBuildsNothing ==
    (dyn.op = "new" /\ dyn.requested = None /\ dyn.probed
        /\ vendor = "UNKNOWN")
        => /\ dyn.result = "ErrInit"
           /\ dyn.variant = "none"
           /\ life = "Uninitialized"
           /\ self = None
           /\ hw = <<>>
           /\ dyn.egl = 0

C12_Witness ==
    /\ dyn.op = "new"
    /\ dyn.requested = None
    /\ dyn.probed
    /\ vendor = "UNKNOWN"
    /\ dyn.result = "ErrInit"
    /\ hw = <<>>

\* C13: whenever the facade is built and the capability query answers, the
\* backend whose definition the query returns is the backend the facade
\* wraps, whether a backend was requested or not.
C13_AdvertisedBackendIsBuiltBackend ==
    (dyn.op = "new" /\ dyn.result = "Ok" /\ dyn.spa = "Ok")
        => dyn.spa_backend = dyn.variant

\* C14: a drain call, the one the destructor makes included, leaves the
\* contents of the output channel as they are, whatever the filter graph
\* and the encoder hold; after a drain that succeeds the encoder holds no
\* packet any more: what it produced was discarded.
C14_DrainForwardsNothing ==
    [][/\ last'.op \in {"drain", "drop"} => chan' = chan
       /\ (State = "Ready" /\ last'.op = "drain" /\ last'.result = "Ok")
            => Encoder'.pending = <<>>]_vars

C14_Witness ==
    /\ last.op = "drain"
    /\ last.result = "Ok"
    /\ last.submits > 0
    /\ State = "Ready"
    /\ Encoder.pending = <<>>
    /\ chan # <<>>

\* C15: drop_processor leaves encoder handle and filter graph absent from
\* whatever state it is called in and returns normally, and calling it
\* once more changes nothing: struct and hardware contexts are as after the
\* first call.
C15_DropProcessorIdempotent ==
    life = "Constructed"
        => LET once  == drop_processor(Unwrap(self), hw)
               twice == drop_processor(once.self, once.hw)
           IN  /\ once.self.encoder = None
               /\ once.self.filter_graph = None
               /\ twice = once
               /\ last.op = "drop_processor"
                    => /\ last.result = "Ok"
                       /\ State = "Stopped"
                       /\ once = [self |-> Unwrap(self), hw |-> hw]

C15_Witness ==
    /\ last.op = "drop_processor"
    /\ last.after = "drop_processor"
    /\ State = "Stopped"

\* C16: width, height, encoder name and quality preset of a constructed
\* instance never change, whatever is called on it, and the encoder handle
\* and the filter graph that a successful reset installs are built from
\* exactly these four values.
C16_ResetKeepsConfiguration ==
    [][(life = "Constructed" /\ life' = "Constructed")
         => LET s == Unwrap(self)
                t == Unwrap(self')
            IN  /\ t.width = s.width
                /\ t.height = s.height
                /\ t.encoder_name = s.encoder_name
                /\ t.quality = s.quality
                /\ (last'.op = "reset" /\ last'.result = "Ok")
                     => /\ State' = "Ready"
                        /\ Encoder'.width = s.width
                        /\ Encoder'.height = s.height
                        /\ Encoder'.codec = s.encoder_name
                        /\ Encoder'.qp = get_encoder_params(s.quality)
                        /\ Unwrap(t.filter_graph).width = s.width
                        /\ Unwrap(t.filter_graph).height = s.height]_vars

C16_Witness ==
    /\ last.op = "reset"
    /\ last.result = "Ok"
    /\ State = "Ready"
    /\ Unwrap(self).width = 2
    /\ Unwrap(self).height = 1
    /\ Unwrap(self).quality = "Ultra"
    /\ Encoder.width = 2
    /\ Encoder.height = 1
    /\ Encoder.qp = 15
    /\ Encoder.codec = "h264_vaapi"

\* C17: every quality preset has its own quantization parameter: the
\* encoder a VAAPI core is built with has qp 30 for Low, 25 for Medium, 20
\* for High and 15 for Ultra, and no two presets share a value.
C17_PresetTable ==
    /\ \A q1, q2 \in QualityPreset :
           q1 # q2 => get_encoder_params(q1) # get_encoder_params(q2)
    /\ State = "Ready"
         => LET q == Unwrap(self).quality
            IN  /\ q \in QualityPreset
                /\ q = "Low"    => Encoder.qp = 30
                /\ q = "Medium" => Encoder.qp = 25
                /\ q = "High"   => Encoder.qp = 20
                /\ q = "Ultra"  => Encoder.qp = 15

C17_Witness ==
    /\ dyn.op = "new"
    /\ dyn.variant = "Vaapi"
    /\ State = "Ready"
    /\ Unwrap(self).quality = "Medium"
    /\ Encoder.qp = 25

\* C18: every process call on a Ready encoder makes exactly one attempt to
\* receive a packet, whether or not it submitted a frame; when no packet is
\* ready the call returns Ok; and one call appends at most one frame to the
\* channel.
C18_OneReceivePerProcess ==
    [][(State = "Ready" /\ last'.op = "process")
         => /\ last'.receives = 1
            /\ last'.pkt = "none" => last'.result = "Ok"
            /\ Len(chan') <= Len(chan) + 1]_vars

\* C19: no failure inside a process call on a Ready encoder reaches the
\* caller: the call returns Ok and the thread goes on, whether the filter
\* source or the encoder refused the frame.
C19_SteadyStateFailuresStayInside ==
    [][(State = "Ready" /\ last'.op = "process")
         => last'.result = "Ok"]_vars

\* C20: when the frame-pool initialization fails inside new or reset, the
\* call fails with the initialization error, the instance is not Ready, and
\* no hardware context of the failed attempt stays live: the contexts live
\* after the call are those that were live before it (less, for reset, the
\* pair that drop_processor released).
C20_FailedInitReleasesEverything ==
    [][(last'.op \in {"new", "reset"} /\ last'.result = "ErrInit")
         => /\ State' # "Ready"
            /\ hw' = IF last'.op = "reset"
                     THEN drop_processor(Unwrap(self), hw).hw
                     ELSE hw]_vars

\* C21: between operations, after any sequence of new, process, drain,
\* reset (successful or failed) and drop_processor, the encoder handle is
\* present exactly when the filter graph is present, so the unwrap of the
\* filter graph that process and drain make under a present encoder never
\* meets an absent graph.
C21_EncoderIffFilterGraph ==
    IsSome(self)
        => (IsSome(Unwrap(self).encoder) <=> IsSome(Unwrap(self).filter_graph))

\* a reset that failed has left the instance with both absent
C21_WitnessFailedReset ==
    /\ life = "Constructed"
    /\ last.op = "reset"
    /\ last.result # "Ok"
    /\ Unwrap(self).encoder = None
    /\ Unwrap(self).filter_graph = None

====
